---- MODULE Spec2Model ----
(***************************************************************************)
(* A model of the two client components of the neighborhood-community app: *)
(*   - OnboardingPage (src/src/app/onboarding/page.tsx): the three-step    *)
(*     form, checkAuth and handleSubmit;                                   *)
(*   - NeighborhoodMap (src/unnamed/part_000, lines 10-294): the effect    *)
(*     that creates a map, geocodes the address and draws marker/layers.   *)
(* The vendor services (auth, data store, router, geocoder, map SDK) are   *)
(* the environment: each awaited call is one step whose result is chosen   *)
(* nondeterministically among the results the code distinguishes.          *)
(***************************************************************************)
EXTENDS Integers, Sequences, FiniteSets, TLC

\* ------------------------------------------------------------------ bounds
MaxSubmits == 2      \* step-3 submits started on one page
MaxEdits == 5        \* input-change and interest-toggle events on one page
MaxRuns == 2         \* runs of the NeighborhoodMap effect
MaxFeatures == 2     \* features in one geocoding response

\* ------------------------------------------------- values of the environment
Users == {"u1"}                  \* ids the auth provider can return
NoUser == "null"
TextValues == {"", "a"}          \* what a text input can be changed to
CommunityTypes == {"residential", "mixed"}   \* two of the <option>s, page.tsx:253-256
InterestOptions == {"events"}                \* one of the checkboxes, page.tsx:268
NoError == "null"

\* The errors an awaited upsert can return, as the catch block tells them apart.
ErrKinds == {"ErrorWithMessage", "ErrorEmptyMessage", "NotAnError"}

VARIABLES
    \* OnboardingPage -----------------------------------------------------
    step,           \* useState(1)
    isSubmitting,   \* useState(false)
    error,          \* useState<string | null>(null)
    formData,       \* useState<FormData>({...})
    subs,           \* the handleSubmit invocations that went past step < 3
    caPc,           \* where checkAuth is
    caSession,      \* checkAuth's `session` (its user id, or null)
    caLog,          \* the calls checkAuth made
    pushed,         \* router.push calls, oldest first
    user_profiles,  \* the hosted table user_profiles
    neighborhoods,  \* the hosted table neighborhoods
    edits,          \* number of change events so far
    lastEvent       \* the handler that ran last

pageVars == <<step, isSubmitting, error, formData, subs, caPc, caSession, caLog,
              pushed, user_profiles, neighborhoods, edits, lastEvent>>

VARIABLES
    \* NeighborhoodMap ----------------------------------------------------
    nmPhase,        \* "unmounted" before the first render, "mounted", "gone"
    props,          \* { neighborhoodName, address, city, state }
    mapError,       \* useState<string | null>(null)
    mapContainer,   \* mapContainer.current is a <div>
    mapCurrent,     \* map.current: 0 for null, else an index of maps
    maps,           \* every mapboxgl.Map constructed so far
    runs,           \* every run of the effect so far
    hasCleanup,     \* the last run of the effect returned its cleanup
    nmLast          \* the handler of the component that ran last

mapVars == <<nmPhase, props, mapError, mapContainer, mapCurrent, maps, runs,
             hasCleanup, nmLast>>

vars == <<pageVars, mapVars>>

\* ======================================================================
\* OnboardingPage
\* ======================================================================

InitialFormData ==
    [neighborhoodName |-> "", address |-> "", city |-> "", state |-> "",
     interests |-> <<>>, communityType |-> "residential"]

\* The payload of the user_profiles upsert (timestamps left out).
ProfileRow(user, fd) ==
    [user_id |-> user, neighborhood_name |-> fd.neighborhoodName,
     address |-> fd.address, city |-> fd.city, state |-> fd.state,
     interests |-> fd.interests, community_type |-> fd.communityType]

\* The payload of the neighborhoods upsert (timestamps left out).
NeighborhoodRow(user, fd) ==
    [user_id |-> user, name |-> fd.neighborhoodName,
     address |-> fd.address, city |-> fd.city, state |-> fd.state]

\* upsert: the row replaces the row of the same user, or is inserted.
Upsert(table, row) == {r \in table : r.user_id # row.user_id} \cup {row}

\* Mutant: the query without its .eq('user_id', ...) filter.
SelectSingle_NoFilter(table, id) ==
    IF Cardinality(table) = 1 THEN table ELSE {}

\* .select('*').eq('user_id', id).single(): the row when there is exactly one.
SelectSingle(table, id) ==
    LET found == {r \in table : r.user_id = id}
    IN  IF Cardinality(found) = 1 THEN found ELSE {}

\* A row a returning user may already have, and the row of somebody else.
OldFormData == [InitialFormData EXCEPT !.neighborhoodName = "a", !.address = "a",
                                       !.city = "a", !.state = "a"]
OldProfile == ProfileRow("u1", OldFormData)
OtherProfile == ProfileRow("u0", OldFormData)

PageInit ==
    /\ step = 1
    /\ isSubmitting = FALSE
    /\ error = NoError
    /\ formData = InitialFormData
    /\ subs = <<>>
    /\ caPc = "getSession"
    /\ caSession = NoUser
    /\ caLog = <<"getSession">>
    /\ pushed = <<>>
    /\ user_profiles \in {{OtherProfile}, {OtherProfile, OldProfile}}
    /\ neighborhoods = {NeighborhoodRow("u0", OldFormData)}
    /\ edits = 0
    /\ lastEvent = "mount"

\* ---------------------------------------------------------------- checkAuth

\* `await supabase.auth.getSession()` returns; without a session the page
\* redirects to the login page, with one the profile query is issued.
CheckAuthSession(s) ==
    /\ caPc = "getSession"
    /\ caSession' = s
    /\ IF s = NoUser
       THEN /\ pushed' = Append(pushed, [by |-> "checkAuth", sub |-> 0, to |-> "/auth/login"])
            /\ caPc' = "done"
            /\ caLog' = caLog
       ELSE /\ pushed' = pushed
            /\ caPc' = "query"
            /\ caLog' = Append(caLog, "select user_profiles")
    /\ lastEvent' = "checkAuthSession"
    /\ UNCHANGED <<step, isSubmitting, error, formData, subs, user_profiles,
                   neighborhoods, edits>>
    /\ UNCHANGED mapVars

\* The profile query returns; a profile redirects to the dashboard.
CheckAuthProfile ==
    /\ caPc = "query"
    /\ LET profile == SelectSingle(user_profiles, caSession)
       IN  pushed' = IF profile # {}
                     THEN Append(pushed, [by |-> "checkAuth", sub |-> 0, to |-> "/dashboard"])
                     ELSE pushed
    /\ caPc' = "done"
    /\ lastEvent' = "checkAuthProfile"
    /\ UNCHANGED <<step, isSubmitting, error, formData, subs, caSession, caLog,
                   user_profiles, neighborhoods, edits>>
    /\ UNCHANGED mapVars

\* ------------------------------------------------------------- form events

\* The inputs rendered at a step.
FieldsAt(s) ==
    IF s = 1 THEN {"neighborhoodName"}
    ELSE IF s = 2 THEN {"address", "city", "state", "communityType"}
    ELSE {}

ValuesOf(name) == IF name = "communityType" THEN CommunityTypes ELSE TextValues

\* handleInputChange: a change event of an input rendered at the current step.
HandleInputChange(name, value) ==
    /\ edits < MaxEdits
    /\ name \in FieldsAt(step)
    /\ value \in ValuesOf(name)
    /\ value # formData[name]
    /\ formData' = [formData EXCEPT ![name] = value]
    /\ edits' = edits + 1
    /\ lastEvent' = "input"
    /\ UNCHANGED <<step, isSubmitting, error, subs, caPc, caSession, caLog,
                   pushed, user_profiles, neighborhoods>>
    /\ UNCHANGED mapVars

Includes(seq, x) == \E k \in 1..Len(seq) : seq[k] = x

Filter(seq, x) == SelectSeq(seq, LAMBDA i : i # x)

\* handleInterestToggle: a checkbox of step 3 is clicked.
HandleInterestToggle(interest) ==
    /\ edits < MaxEdits
    /\ step = 3
    /\ formData' = [formData EXCEPT !.interests =
                      IF Includes(formData.interests, interest)
                      THEN Filter(formData.interests, interest)
                      ELSE Append(formData.interests, interest)]
    /\ edits' = edits + 1
    /\ lastEvent' = "toggle"
    /\ UNCHANGED <<step, isSubmitting, error, subs, caPc, caSession, caLog,
                   pushed, user_profiles, neighborhoods>>
    /\ UNCHANGED mapVars

\* Mutant: the Back button is rendered at every step.
BackOffered_Always == TRUE

\* The Back button is rendered.
BackOffered == step > 1

\* onClick={() => setStep(step - 1)}
BackClick ==
    /\ BackOffered
    /\ step' = step - 1
    /\ lastEvent' = "back"
    /\ UNCHANGED <<isSubmitting, error, formData, subs, caPc, caSession, caLog,
                   pushed, user_profiles, neighborhoods, edits>>
    /\ UNCHANGED mapVars

\* The `required` inputs rendered at the step are filled in.
FormValid ==
    \A name \in FieldsAt(step) : formData[name] # ""

\* Mutant: the submit button is never disabled.
SubmitEnabled_Always == TRUE

\* The submit button is enabled.
SubmitEnabled == ~isSubmitting

NewSub ==
    [pc |-> "getUser", user |-> NoUser, formData |-> formData,
     log |-> <<"getUser">>, caught |-> FALSE,
     profilePayload |-> <<>>, neighborhoodPayload |-> <<>>]

\* Mutant: the saving flag is raised before the step is looked at.
HandleSubmit_FlagFirst ==
    /\ SubmitEnabled
    /\ FormValid
    /\ isSubmitting' = (step < 3 \/ Len(subs) < MaxSubmits)
    /\ IF step < 3
       THEN /\ step' = step + 1
            /\ UNCHANGED <<error, subs>>
       ELSE /\ Len(subs) < MaxSubmits
            /\ error' = NoError
            /\ subs' = Append(subs, NewSub)
            /\ step' = step
    /\ lastEvent' = "submit"
    /\ UNCHANGED <<formData, caPc, caSession, caLog, pushed, user_profiles,
                   neighborhoods, edits>>
    /\ UNCHANGED mapVars

\* handleSubmit up to its first await.
HandleSubmit ==
    /\ SubmitEnabled
    /\ FormValid
    /\ IF step < 3
       THEN /\ step' = step + 1
            /\ UNCHANGED <<isSubmitting, error, subs>>
       ELSE /\ Len(subs) < MaxSubmits
            /\ isSubmitting' = TRUE
            /\ error' = NoError
            /\ subs' = Append(subs, NewSub)
            /\ step' = step
    /\ lastEvent' = "submit"
    /\ UNCHANGED <<formData, caPc, caSession, caLog, pushed, user_profiles,
                   neighborhoods, edits>>
    /\ UNCHANGED mapVars

\* The message the catch block shows for what was thrown.
CatchMessage(kind, message) ==
    IF kind = "NotAnError" THEN "An unexpected error occurred"
    ELSE IF kind = "ErrorEmptyMessage" \/ message = ""
         THEN "An error occurred while saving your profile"
         ELSE message

\* Mutant: the catch block without the finally block.
Caught_NoFinally(i, entry, kind, message) ==
    /\ subs' = [subs EXCEPT ![i].pc = "done", ![i].caught = TRUE,
                            ![i].log = Append(@, entry)]
    /\ error' = CatchMessage(kind, message)
    /\ isSubmitting' = isSubmitting

\* catch { setError(...) } finally { setIsSubmitting(false) }
Caught(i, entry, kind, message) ==
    /\ subs' = [subs EXCEPT ![i].pc = "done", ![i].caught = TRUE,
                            ![i].log = Append(@, entry)]
    /\ error' = CatchMessage(kind, message)
    /\ isSubmitting' = FALSE

\* Mutant: the `if (!user) throw` check is missing.
GetUserReturns_NoCheck(i, u) ==
    /\ i \in 1..Len(subs)
    /\ subs[i].pc = "getUser"
    /\ subs' = [subs EXCEPT ![i].pc = "upsertProfile", ![i].user = u,
                  ![i].log = @ \o <<IF u = NoUser THEN "getUser:null" ELSE "getUser:user",
                                    "upsert user_profiles">>,
                  ![i].profilePayload = <<ProfileRow(u, subs[i].formData)>>]
    /\ UNCHANGED <<error, isSubmitting>>
    /\ lastEvent' = "getUserReturns"
    /\ UNCHANGED <<step, formData, caPc, caSession, caLog, pushed, user_profiles,
                   neighborhoods, edits>>
    /\ UNCHANGED mapVars

\* `await supabase.auth.getUser()` returns u; the profile upsert is issued.
GetUserReturns(i, u) ==
    /\ i \in 1..Len(subs)
    /\ subs[i].pc = "getUser"
    /\ IF u = NoUser
       THEN /\ Caught(i, "getUser:null", "ErrorWithMessage", "No user found")
       ELSE /\ subs' = [subs EXCEPT ![i].pc = "upsertProfile", ![i].user = u,
                          ![i].log = @ \o <<"getUser:user", "upsert user_profiles">>,
                          ![i].profilePayload = <<ProfileRow(u, subs[i].formData)>>]
            /\ UNCHANGED <<error, isSubmitting>>
    /\ lastEvent' = "getUserReturns"
    /\ UNCHANGED <<step, formData, caPc, caSession, caLog, pushed, user_profiles,
                   neighborhoods, edits>>
    /\ UNCHANGED mapVars

\* Mutant: the neighborhoods payload is built from the form as it is when
\* the first upsert returns, not from the values the handler was called with.
ProfileUpsertReturns_LiveForm(i, err) ==
    /\ i \in 1..Len(subs)
    /\ subs[i].pc = "upsertProfile"
    /\ IF err \in ErrKinds
       THEN /\ Caught(i, "user_profiles:error", err, "profile error")
            /\ UNCHANGED user_profiles
       ELSE /\ user_profiles' = Upsert(user_profiles, subs[i].profilePayload[1])
            /\ subs' = [subs EXCEPT ![i].pc = "upsertNeighborhood",
                          ![i].log = @ \o <<"user_profiles:ok", "upsert neighborhoods">>,
                          ![i].neighborhoodPayload =
                              <<NeighborhoodRow(subs[i].user, formData)>>]
            /\ UNCHANGED <<error, isSubmitting>>
    /\ lastEvent' = "profileUpsertReturns"
    /\ UNCHANGED <<step, formData, caPc, caSession, caLog, pushed, neighborhoods, edits>>
    /\ UNCHANGED mapVars

\* The user_profiles upsert returns; without an error the row is stored and
\* the neighborhoods upsert is issued.
ProfileUpsertReturns(i, err) ==
    /\ i \in 1..Len(subs)
    /\ subs[i].pc = "upsertProfile"
    /\ IF err \in ErrKinds
       THEN /\ Caught(i, "user_profiles:error", err, "profile error")
            /\ UNCHANGED user_profiles
       ELSE /\ user_profiles' = Upsert(user_profiles, subs[i].profilePayload[1])
            /\ subs' = [subs EXCEPT ![i].pc = "upsertNeighborhood",
                          ![i].log = @ \o <<"user_profiles:ok", "upsert neighborhoods">>,
                          ![i].neighborhoodPayload =
                              <<NeighborhoodRow(subs[i].user, subs[i].formData)>>]
            /\ UNCHANGED <<error, isSubmitting>>
    /\ lastEvent' = "profileUpsertReturns"
    /\ UNCHANGED <<step, formData, caPc, caSession, caLog, pushed, neighborhoods, edits>>
    /\ UNCHANGED mapVars

\* Mutant: the redirect does not wait for neighborhoodError to be looked at.
NeighborhoodUpsertReturns_PushFirst(i, err) ==
    /\ i \in 1..Len(subs)
    /\ subs[i].pc = "upsertNeighborhood"
    /\ pushed' = Append(pushed, [by |-> "handleSubmit", sub |-> i, to |-> "/dashboard"])
    /\ IF err \in ErrKinds
       THEN /\ subs' = [subs EXCEPT ![i].pc = "done", ![i].caught = TRUE,
                          ![i].log = @ \o <<"push /dashboard", "neighborhoods:error">>]
            /\ error' = CatchMessage(err, "neighborhood error")
            /\ UNCHANGED neighborhoods
       ELSE /\ neighborhoods' = Upsert(neighborhoods, subs[i].neighborhoodPayload[1])
            /\ subs' = [subs EXCEPT ![i].pc = "done",
                          ![i].log = @ \o <<"push /dashboard", "neighborhoods:ok">>]
            /\ UNCHANGED error
    /\ isSubmitting' = FALSE
    /\ lastEvent' = "neighborhoodUpsertReturns"
    /\ UNCHANGED <<step, formData, caPc, caSession, caLog, user_profiles, edits>>
    /\ UNCHANGED mapVars

\* The neighborhoods upsert returns; without an error the row is stored and
\* the page redirects to the dashboard.
NeighborhoodUpsertReturns(i, err) ==
    /\ i \in 1..Len(subs)
    /\ subs[i].pc = "upsertNeighborhood"
    /\ IF err \in ErrKinds
       THEN /\ Caught(i, "neighborhoods:error", err, "neighborhood error")
            /\ UNCHANGED <<neighborhoods, pushed>>
       ELSE /\ neighborhoods' = Upsert(neighborhoods, subs[i].neighborhoodPayload[1])
            /\ pushed' = Append(pushed, [by |-> "handleSubmit", sub |-> i, to |-> "/dashboard"])
            /\ subs' = [subs EXCEPT ![i].pc = "done",
                          ![i].log = @ \o <<"neighborhoods:ok", "push /dashboard">>]
            /\ isSubmitting' = FALSE
            /\ UNCHANGED error
    /\ lastEvent' = "neighborhoodUpsertReturns"
    /\ UNCHANGED <<step, formData, caPc, caSession, caLog, user_profiles, edits>>
    /\ UNCHANGED mapVars

Results == ErrKinds \cup {"ok"}

PageNext ==
    \/ \E s \in Users \cup {NoUser} : CheckAuthSession(s)
    \/ CheckAuthProfile
    \/ \E name \in {"neighborhoodName", "address", "city", "state", "communityType"} :
         \E value \in TextValues \cup CommunityTypes : HandleInputChange(name, value)
    \/ \E interest \in InterestOptions : HandleInterestToggle(interest)
    \/ BackClick
    \/ HandleSubmit
    \/ \E i \in 1..MaxSubmits : \E u \in Users \cup {NoUser} : GetUserReturns(i, u)
    \/ \E i \in 1..MaxSubmits : \E err \in Results : ProfileUpsertReturns(i, err)
    \/ \E i \in 1..MaxSubmits : \E err \in Results : NeighborhoodUpsertReturns(i, err)

\* ======================================================================
\* NeighborhoodMap
\* ======================================================================

Undefined == "undefined"

\* The props the component is rendered with.
PropsSet ==
    { [neighborhoodName |-> "Maeser", address |-> "1 Main St", city |-> "Provo", state |-> "UT"],
      [neighborhoodName |-> "Joaquin", address |-> "2 Elm St", city |-> Undefined, state |-> Undefined] }

NoProps == [neighborhoodName |-> "", address |-> "", city |-> Undefined, state |-> Undefined]

\* The features the geocoder can return: a center and the place and region
\* texts of its context (Undefined when the context has none).
Centers == {"c1", "c2"}
FeatureSet ==
    { [center |-> "c1", place |-> "Orem", region |-> "ut"],
      [center |-> "c2", place |-> "PROVO", region |-> "ut"],
      [center |-> "c2", place |-> Undefined, region |-> Undefined] }

\* String.prototype.toLowerCase behind `?.`: undefined stays undefined.
ToLowerCase(s) ==
    CASE s = "Provo" -> "provo"
      [] s = "PROVO" -> "provo"
      [] s = "Orem"  -> "orem"
      [] s = "UT"    -> "ut"
      [] OTHER       -> s

\* The callback of data.features.find.
FeatureMatches(f, p) ==
    /\ ToLowerCase(f.place) = ToLowerCase(p.city)
    /\ ToLowerCase(f.region) = ToLowerCase(p.state)

\* data.features.find(...) || data.features[0]
RelevantFeature(fs, p) ==
    LET hits == {k \in 1..Len(fs) : FeatureMatches(fs[k], p)}
    IN  IF hits = {} THEN fs[1]
        ELSE fs[CHOOSE k \in hits : \A j \in hits : k <= j]

\* [address, city, state].filter(Boolean).join(', ') as the list of its parts.
FullAddress(p) ==
    SelectSeq(<<p.address, p.city, p.state>>, LAMBDA x : x # Undefined /\ x # "")

StaticLayers ==
    {"neighborhood-fill", "neighborhood-boundaries", "neighborhood-boundaries-line",
     "city-boundaries", "city-boundaries-line"}

AdminLayers == StaticLayers \ {"neighborhood-fill"}

\* new mapboxgl.Map({...})
NewMap ==
    [removed |-> FALSE, loaded |-> FALSE, flyTo |-> <<>>, markers |-> <<>>,
     loadHandlers |-> <<>>, sources |-> {}, layers |-> {}, circleAt |-> "none"]

MapInit ==
    /\ nmPhase = "unmounted"
    /\ props = NoProps
    /\ mapError = NoError
    /\ mapContainer = FALSE
    /\ mapCurrent = 0
    /\ maps = <<>>
    /\ runs = <<>>
    /\ hasCleanup = FALSE
    /\ nmLast = [ev |-> "none", run |-> 0, kind |-> "none"]

\* Mutant: the container is rendered whatever the error.
RendersContainer_Always(err) == TRUE

\* The component renders the container <div> (and not the error box).
RendersContainer(err) == err = NoError

\* The cleanup the effect returned: the layers and sources are removed from
\* map.current, then the map itself.
Cleanup(ms) ==
    IF hasCleanup /\ mapCurrent # 0
    THEN [ms EXCEPT ![mapCurrent] =
            [@ EXCEPT !.layers = @ \ StaticLayers,
                      !.sources = @ \ {"neighborhood", "admin-boundaries"},
                      !.circleAt = "none",
                      !.removed = TRUE]]
    ELSE ms

\* The body of the effect, run with props p after ms was cleaned up.
Effect(p, ms) ==
    IF ~mapContainer'
    THEN /\ maps' = ms
         /\ mapCurrent' = mapCurrent
         /\ runs' = Append(runs, [props |-> p, hadContainer |-> FALSE, map |-> 0,
                                    requests |-> 0, pc |-> "none", center |-> "none"])
         /\ hasCleanup' = FALSE
    ELSE /\ maps' = Append(ms, NewMap)
         /\ mapCurrent' = Len(ms) + 1
         /\ runs' = Append(runs, [props |-> p, hadContainer |-> TRUE, map |-> Len(ms) + 1,
                                    requests |-> 1, pc |-> "pending", center |-> "none"])
         /\ hasCleanup' = TRUE

\* The first render and the first run of the effect.
NMMount(p) ==
    /\ nmPhase = "unmounted"
    /\ nmPhase' = "mounted"
    /\ props' = p
    /\ mapContainer' = RendersContainer(mapError)
    /\ Effect(p, maps)
    /\ nmLast' = [ev |-> "mount", run |-> Len(runs) + 1, kind |-> "none"]
    /\ UNCHANGED mapError
    /\ UNCHANGED pageVars

\* A render with a changed address, city, state or neighborhoodName: the
\* cleanup of the previous run, then the effect again.
NMPropsChange(p) ==
    /\ nmPhase = "mounted"
    /\ Len(runs) < MaxRuns
    /\ p # props
    /\ props' = p
    /\ mapContainer' = RendersContainer(mapError)
    /\ Effect(p, Cleanup(maps))
    /\ nmLast' = [ev |-> "propsChange", run |-> Len(runs) + 1, kind |-> "none"]
    /\ UNCHANGED <<nmPhase, mapError>>
    /\ UNCHANGED pageVars

\* The component is unmounted: the cleanup of the last run.
NMUnmount ==
    /\ nmPhase = "mounted"
    /\ nmPhase' = "gone"
    /\ mapContainer' = FALSE
    /\ maps' = Cleanup(maps)
    /\ hasCleanup' = FALSE
    /\ nmLast' = [ev |-> "unmount", run |-> 0, kind |-> "none"]
    /\ UNCHANGED <<props, mapError, mapCurrent, runs>>
    /\ UNCHANGED pageVars

\* One 'load' handler, registered with the coordinates c, run on map.current.
LoadHandler(m, c) ==
    LET m1 == IF "neighborhood" \in m.sources
              THEN [m EXCEPT !.layers = @ \ {"neighborhood-fill"},
                             !.sources = @ \ {"neighborhood"}, !.circleAt = "none"]
              ELSE m
        m2 == [m1 EXCEPT !.sources = @ \cup {"neighborhood"}, !.circleAt = c,
                         !.layers = @ \cup {"neighborhood-fill"}]
    IN  IF "admin-boundaries" \notin m2.sources
        THEN [m2 EXCEPT !.sources = @ \cup {"admin-boundaries"},
                        !.layers = @ \cup AdminLayers]
        ELSE m2

RECURSIVE RunLoadHandlers(_, _)
RunLoadHandlers(m, hs) ==
    IF hs = <<>> THEN m
    ELSE RunLoadHandlers(LoadHandler(m, Head(hs)), Tail(hs))

\* The map of index k fires 'load': the handlers registered on it run, each
\* on the map map.current refers to.
MapLoad(k) ==
    /\ k \in 1..Len(maps)
    /\ ~maps[k].removed
    /\ ~maps[k].loaded
    /\ LET fired == [maps EXCEPT ![k].loaded = TRUE]
       IN  maps' = IF mapCurrent # 0
                   THEN [fired EXCEPT ![mapCurrent] =
                            RunLoadHandlers(@, maps[k].loadHandlers)]
                   ELSE fired
    /\ nmLast' = [ev |-> "load", run |-> 0, kind |-> "none"]
    /\ UNCHANGED <<nmPhase, props, mapError, mapContainer, mapCurrent, runs, hasCleanup>>
    /\ UNCHANGED pageVars

\* Mutant: a failed geocoding is tried again.
GeocodeFailed_Retry(r, msg) ==
    /\ mapError' = msg
    /\ mapContainer' = (nmPhase = "mounted" /\ mapContainer /\ RendersContainer(msg))
    /\ runs' = [runs EXCEPT ![r].requests = @ + 1]
    /\ UNCHANGED maps

\* setError(msg) in geocodeAddress, and the render it causes: the error box
\* replaces the container, so the ref to the container becomes null.
GeocodeFailed(r, msg) ==
    /\ mapError' = msg
    /\ mapContainer' = (nmPhase = "mounted" /\ mapContainer /\ RendersContainer(msg))
    /\ runs' = [runs EXCEPT ![r].pc = "done"]
    /\ UNCHANGED maps

\* flyTo, the marker with its popup, and the 'load' handler, on map.current.
PlaceOnMap(m, c, p) ==
    [m EXCEPT !.flyTo = Append(@, c),
              !.markers = Append(@, [lngLat |-> c,
                                     popup |-> <<p.neighborhoodName, FullAddress(p)>>]),
              !.loadHandlers = Append(@, c)]

\* The geocoding request of run r fails: fetch or response.json() throws.
GeocodeThrows(r) ==
    /\ r \in 1..Len(runs)
    /\ runs[r].pc = "pending"
    /\ GeocodeFailed(r, "Failed to load map data")
    /\ nmLast' = [ev |-> "response", run |-> r, kind |-> "throw"]
    /\ UNCHANGED <<nmPhase, props, mapCurrent, hasCleanup>>
    /\ UNCHANGED pageVars

\* Mutant: an empty result is only logged, and the marker is put at the
\* default center.
GeocodeReturnsNothing_Silent(r, hasFeatures) ==
    /\ r \in 1..Len(runs)
    /\ runs[r].pc = "pending"
    /\ runs' = [runs EXCEPT ![r].pc = "done"]
    /\ maps' = IF mapCurrent # 0
               THEN [maps EXCEPT ![mapCurrent] = PlaceOnMap(@, "c1", runs[r].props)]
               ELSE maps
    /\ nmLast' = [ev |-> "response", run |-> r,
                  kind |-> IF hasFeatures THEN "empty" ELSE "nofeatures"]
    /\ UNCHANGED <<nmPhase, props, mapError, mapContainer, mapCurrent, hasCleanup>>
    /\ UNCHANGED pageVars

\* The geocoding request of run r returns without features: hasFeatures tells
\* whether the response has a `features` member (then an empty one) at all.
GeocodeReturnsNothing(r, hasFeatures) ==
    /\ r \in 1..Len(runs)
    /\ runs[r].pc = "pending"
    /\ GeocodeFailed(r, "Could not find the specified location")
    /\ nmLast' = [ev |-> "response", run |-> r,
                  kind |-> IF hasFeatures THEN "empty" ELSE "nofeatures"]
    /\ UNCHANGED <<nmPhase, props, mapCurrent, hasCleanup>>
    /\ UNCHANGED pageVars

\* The geocoding request of run r returns the features fs. What the SDK
\* does with a call on a map that was removed is not fixed by the code:
\* sdkThrows chooses between an exception and a call that goes through.
GeocodeReturns(r, fs, sdkThrows) ==
    /\ r \in 1..Len(runs)
    /\ runs[r].pc = "pending"
    /\ Len(fs) > 0
    /\ nmLast' = [ev |-> "response", run |-> r, kind |-> "features"]
    /\ LET c == RelevantFeature(fs, runs[r].props).center
       IN  IF mapCurrent = 0
           THEN /\ sdkThrows = FALSE
                /\ runs' = [runs EXCEPT ![r].pc = "done", ![r].center = c]
                /\ UNCHANGED <<maps, mapError, mapContainer>>
           ELSE IF maps[mapCurrent].removed /\ sdkThrows
           THEN GeocodeFailed(r, "Failed to load map data")
           ELSE /\ sdkThrows = FALSE
                /\ maps' = [maps EXCEPT ![mapCurrent] = PlaceOnMap(@, c, runs[r].props)]
                /\ runs' = [runs EXCEPT ![r].pc = "done", ![r].center = c]
                /\ UNCHANGED <<mapError, mapContainer>>
    /\ UNCHANGED <<nmPhase, props, mapCurrent, hasCleanup>>
    /\ UNCHANGED pageVars

FeatureLists == UNION {[1..n -> FeatureSet] : n \in 1..MaxFeatures}

MapNext ==
    \/ \E p \in PropsSet : NMMount(p)
    \/ \E p \in PropsSet : NMPropsChange(p)
    \/ NMUnmount
    \/ \E k \in 1..MaxRuns : MapLoad(k)
    \/ \E r \in 1..MaxRuns : GeocodeThrows(r)
    \/ \E r \in 1..MaxRuns : \E hasFeatures \in BOOLEAN : GeocodeReturnsNothing(r, hasFeatures)
    \/ \E r \in 1..MaxRuns : \E fs \in FeatureLists : \E sdkThrows \in BOOLEAN :
         GeocodeReturns(r, fs, sdkThrows)

\* ======================================================================
\* Specifications
\* ======================================================================

Init == PageInit /\ MapInit

Next == PageNext \/ MapNext

\* Both components on one screen.
Spec == Init /\ [][Next]_vars

\* The onboarding page alone.
PageSpec == Init /\ [][PageNext]_vars

\* The map component alone.
MapSpecInit == Init /\ user_profiles = {OtherProfile}

MapSpec == MapSpecInit /\ [][MapNext]_vars

\* ======================================================================
\* Claims
\* ======================================================================

\* The index of the first x in seq, 0 when there is none.
Pos(seq, x) ==
    IF Includes(seq, x) THEN CHOOSE k \in 1..Len(seq) : seq[k] = x /\ \A j \in 1..(k - 1) : seq[j] # x
    ELSE 0

Count(seq, x) == Cardinality({k \in 1..Len(seq) : seq[k] = x})

SubIds == 1..Len(subs)

\* The router.push calls of the handleSubmit invocation i.
PushesOf(i) == SelectSeq(pushed, LAMBDA e : e.by = "handleSubmit" /\ e.sub = i)

PushesOfCheckAuth == SelectSeq(pushed, LAMBDA e : e.by = "checkAuth")

SuccessLog ==
    <<"getUser", "getUser:user", "upsert user_profiles", "user_profiles:ok",
      "upsert neighborhoods", "neighborhoods:ok", "push /dashboard">>

\* C1: a step-3 submit whose getUser returns a user and whose two upserts
\* return no error makes exactly the calls getUser, upsert user_profiles,
\* upsert neighborhoods, push /dashboard, in this order; and a handleSubmit
\* that pushed /dashboard had both of its own upserts return without error
\* before the push.
C1_SaveThenRedirect ==
    \A i \in SubIds :
        LET log == subs[i].log
        IN  /\ ( /\ Includes(log, "getUser:user")
                 /\ Includes(log, "user_profiles:ok")
                 /\ Includes(log, "neighborhoods:ok") )
               => ( /\ log = SuccessLog
                    /\ Len(PushesOf(i)) = 1
                    /\ PushesOf(i)[1].to = "/dashboard" )
            /\ (Includes(log, "push /dashboard") \/ PushesOf(i) # <<>>)
               => ( /\ Pos(log, "user_profiles:ok") > 0
                    /\ Pos(log, "user_profiles:ok") < Pos(log, "neighborhoods:ok")
                    /\ Pos(log, "neighborhoods:ok") < Pos(log, "push /dashboard")
                    /\ Count(log, "upsert user_profiles") = 1
                    /\ Count(log, "upsert neighborhoods") = 1 )

C1_Witness ==
    \E i \in SubIds : subs[i].pc = "done" /\ subs[i].log = SuccessLog /\ PushesOf(i) # <<>>

\* C2: step starts at 1 and is always 1, 2 or 3, whatever submits and Back
\* clicks happen (also while a save is in flight); Back is offered only when
\* step > 1, and a submit at step 3 does not change step.
C2_ThreeSteps ==
    /\ step = 1
    /\ [](step \in {1, 2, 3} /\ (BackOffered => step > 1))
    /\ [][ /\ (lastEvent' = "back") => (step > 1 /\ step' = step - 1)
           /\ (lastEvent' = "submit" /\ step = 3) => step' = step ]_vars

C2_Witness ==
    /\ lastEvent = "back"
    /\ step = 1
    /\ \E i \in SubIds : subs[i].pc # "done"

\* The handleSubmit invocation i ends in its catch block in this step.
FailsNow(i) == subs[i].pc # "done" /\ subs'[i].pc = "done" /\ subs'[i].caught

IssuedCalls == {"getUser", "upsert user_profiles", "upsert neighborhoods"}

FailureEntries == {"getUser:null", "user_profiles:error", "neighborhoods:error"}

\* C3: when a step-3 submit fails, at the end of its handler error is
\* non-null and isSubmitting is false; the submit has not redirected and never
\* does; it made each call at most once and none after the failing one; and
\* the user_profiles row it wrote before the failure is still in the table.
C3_FailureOnlyShowsError ==
    /\ [](\A i \in SubIds : subs[i].caught =>
            /\ subs[i].pc = "done"
            /\ PushesOf(i) = <<>>
            /\ ~Includes(subs[i].log, "push /dashboard")
            /\ \A c \in IssuedCalls : Count(subs[i].log, c) <= 1
            /\ subs[i].log[Len(subs[i].log)] \in FailureEntries
            /\ \A k \in 1..(Len(subs[i].log) - 1) : subs[i].log[k] \notin FailureEntries)
    /\ [][\A i \in SubIds : FailsNow(i) =>
            /\ error' # NoError
            /\ isSubmitting' = FALSE
            /\ pushed' = pushed
            /\ neighborhoods' = neighborhoods
            /\ user_profiles' = user_profiles
            /\ Includes(subs'[i].log, "user_profiles:ok")
                  => subs'[i].profilePayload[1] \in user_profiles']_vars

C3_Witness ==
    \E i \in SubIds :
        /\ subs[i].caught
        /\ Includes(subs[i].log, "neighborhoods:error")
        /\ subs[i].profilePayload[1] \in user_profiles
        /\ error # NoError
        /\ ~isSubmitting

\* The rows the tables held before the page was opened.
RowsBefore == {OtherProfile, OldProfile, NeighborhoodRow("u0", OldFormData)}

\* C8: a row gets into either table only from a handleSubmit whose getUser
\* returned a user; the neighborhoods upsert is issued only after the
\* user_profiles upsert of the same submit returned without error; and both
\* payloads of a submit carry the id of the user its getUser returned.
C8_WritesNeedUser ==
    /\ \A i \in SubIds :
        LET log == subs[i].log
        IN  /\ subs[i].profilePayload # <<>> =>
                /\ Includes(log, "getUser:user")
                /\ Pos(log, "getUser:user") < Pos(log, "upsert user_profiles")
                /\ subs[i].user \in Users
                /\ subs[i].profilePayload[1].user_id = subs[i].user
            /\ Includes(log, "upsert user_profiles") => subs[i].profilePayload # <<>>
            /\ subs[i].neighborhoodPayload # <<>> =>
                /\ Includes(log, "user_profiles:ok")
                /\ Pos(log, "user_profiles:ok") < Pos(log, "upsert neighborhoods")
                /\ subs[i].neighborhoodPayload[1].user_id = subs[i].user
                /\ subs[i].neighborhoodPayload[1].user_id = subs[i].profilePayload[1].user_id
            /\ Includes(log, "upsert neighborhoods") => subs[i].neighborhoodPayload # <<>>
    /\ \A r \in user_profiles : r \notin RowsBefore =>
          \E i \in SubIds : /\ Includes(subs[i].log, "getUser:user")
                            /\ subs[i].profilePayload = <<r>>
                            /\ r.user_id \in Users
    /\ \A r \in neighborhoods : r \notin RowsBefore =>
          \E i \in SubIds : /\ Includes(subs[i].log, "user_profiles:ok")
                            /\ subs[i].neighborhoodPayload = <<r>>
                            /\ r.user_id \in Users

C8_Witness ==
    \E i \in SubIds :
        /\ subs[i].log = SuccessLog
        /\ subs[i].profilePayload[1] \in user_profiles
        /\ subs[i].neighborhoodPayload[1] \in neighborhoods

LoginPush == [by |-> "checkAuth", sub |-> 0, to |-> "/auth/login"]
DashboardPush == [by |-> "checkAuth", sub |-> 0, to |-> "/dashboard"]

C10_StepOnly ==
    [][ /\ (lastEvent' = "submit" /\ step < 3) =>
            /\ step' = step + 1
            /\ UNCHANGED <<formData, error, isSubmitting, subs, pushed,
                           user_profiles, neighborhoods, caLog>>
        /\ (lastEvent' = "back") =>
            /\ step' = step - 1
            /\ UNCHANGED <<formData, error, isSubmitting, subs, pushed,
                           user_profiles, neighborhoods>> ]_vars

C10_Witness ==
    /\ lastEvent = "back"
    /\ step = 1
    /\ formData.neighborhoodName = "a"
    /\ formData.address = "a"
    /\ subs = <<>>

RunIds == 1..Len(runs)

\* C4: once the geocoding response of a run has been handled with a feature
\* and the map of that run has loaded, the marker is at the chosen center and
\* the static layers are on the map, whichever of the two came first.
C4_LayersInEveryOrdering ==
    \A r \in RunIds :
        ( /\ runs[r].pc = "done"
          /\ runs[r].center # "none"
          /\ ~maps[runs[r].map].removed
          /\ maps[runs[r].map].loaded )
        => ( /\ \E k \in 1..Len(maps[runs[r].map].markers) :
                   maps[runs[r].map].markers[k].lngLat = runs[r].center
             /\ StaticLayers \subseteq maps[runs[r].map].layers )

\* C5: a run of the effect that found the container has issued exactly one
\* geocoding request, also after that request failed or came back empty; a
\* run that found no container has issued none.
C5_OneRequestPerRun ==
    \A r \in RunIds : runs[r].requests = (IF runs[r].hadContainer THEN 1 ELSE 0)

C5_Witness ==
    \E r \in RunIds :
        /\ runs[r].pc = "done"
        /\ runs[r].requests = 1
        /\ mapError # NoError
        /\ nmLast = [ev |-> "response", run |-> r, kind |-> "empty"]

\* C6: a response without features sets error to 'Could not find the
\* specified location', an exception of fetch or json() sets it to 'Failed to
\* load map data'; neither adds a marker, a flyTo or a 'load' handler.
C6_GeocodeErrors ==
    [][ /\ (nmLast'.ev = "response" /\ nmLast'.kind \in {"empty", "nofeatures"}) =>
            (mapError' = "Could not find the specified location" /\ maps' = maps)
        /\ (nmLast'.ev = "response" /\ nmLast'.kind = "throw") =>
            (mapError' = "Failed to load map data" /\ maps' = maps) ]_vars

C6_Witness ==
    /\ nmLast.ev = "response"
    /\ nmLast.kind = "nofeatures"
    /\ mapError = "Could not find the specified location"
    /\ \A k \in 1..Len(maps) : maps[k].markers = <<>> /\ maps[k].loadHandlers = <<>>

\* C7: once error is non-null it stays non-null and the container is not
\* rendered; a run of the effect that starts with error non-null creates no
\* map and issues no geocoding request.
C7_ErrorIsFinal ==
    /\ [](mapError # NoError => ~mapContainer)
    /\ [][mapError # NoError => mapError' # NoError]_vars
    /\ [][(Len(runs') > Len(runs) /\ mapError # NoError) =>
            /\ Len(maps') = Len(maps)
            /\ mapCurrent' = mapCurrent
            /\ ~runs'[Len(runs')].hadContainer
            /\ runs'[Len(runs')].requests = 0]_vars

C7_Witness ==
    /\ mapError # NoError
    /\ nmPhase = "mounted"
    /\ nmLast.ev = "propsChange"
    /\ ~runs[Len(runs)].hadContainer

\* The response handled in this step belongs to run r, whose map the cleanup
\* has already removed.
StaleResponse(r) ==
    /\ nmLast'.ev = "response"
    /\ nmLast'.run = r
    /\ runs[r].pc = "pending"
    /\ maps[runs[r].map].removed

\* C11: the response of an effect run whose map the cleanup has removed
\* calls no flyTo, adds no marker and registers no 'load' handler on any
\* map, neither the removed one nor the one a later run created.
C11_StaleResponseTouchesNoMap ==
    [][\A r \in RunIds : StaleResponse(r) =>
          \A k \in 1..Len(maps) :
              /\ maps'[k].flyTo = maps[k].flyTo
              /\ maps'[k].markers = maps[k].markers
              /\ maps'[k].loadHandlers = maps[k].loadHandlers]_vars

\* The handleSubmit invocations between their first await and their end.
InFlight == {i \in SubIds : subs[i].pc # "done"}

\* C12: at most one save is in flight: isSubmitting is true exactly while
\* one is, a step-3 submit starts its getUser/upsert sequence only when every
\* earlier one has ended, and a table is written only by the one in flight.
C12_OneSaveInFlight ==
    /\ [](Cardinality(InFlight) <= 1 /\ (isSubmitting <=> InFlight # {}))
    /\ [][ /\ Len(subs') > Len(subs) => (InFlight = {} /\ ~isSubmitting)
           /\ (user_profiles' # user_profiles \/ neighborhoods' # neighborhoods)
                 => Cardinality(InFlight) = 1 ]_vars

C12_Witness ==
    /\ Len(subs) = 2
    /\ subs[1].pc = "done"
    /\ subs[2].pc = "upsertNeighborhood"
    /\ isSubmitting
    /\ lastEvent = "back"

\* The row of user u in a table (the table as it is when there is none).
RowOf(table, u) == {r \in table : r.user_id = u}

\* The two payloads of the invocation i agree with each other and with fd.
PayloadsAgree(i, fd) ==
    /\ subs[i].profilePayload # <<>> => subs[i].profilePayload[1] = ProfileRow(subs[i].user, fd)
    /\ subs[i].neighborhoodPayload # <<>> =>
         LET p == subs[i].profilePayload[1]
             n == subs[i].neighborhoodPayload[1]
         IN  /\ n.name = p.neighborhood_name /\ n.name = fd.neighborhoodName
             /\ n.address = p.address /\ n.address = fd.address
             /\ n.city = p.city /\ n.city = fd.city
             /\ n.state = p.state /\ n.state = fd.state

\* C13: the values a step-3 submit works with are the form values at the
\* moment of the submit; both of its payloads carry them, whatever is edited
\* while the save is in flight; and when the submit succeeds the two rows of
\* its user in the tables are these payloads, so they agree.
C13_RowsAgree ==
    /\ [](\A i \in SubIds : PayloadsAgree(i, subs[i].formData))
    /\ [][ /\ Len(subs') > Len(subs) => subs'[Len(subs')].formData = formData
           /\ \A i \in SubIds : subs'[i].formData = subs[i].formData
           /\ \A i \in SubIds :
                (subs[i].pc = "upsertNeighborhood" /\ subs'[i].pc = "done" /\ ~subs'[i].caught)
                => /\ RowOf(user_profiles', subs[i].user) = {ProfileRow(subs[i].user, subs[i].formData)}
                   /\ RowOf(neighborhoods', subs[i].user) = {NeighborhoodRow(subs[i].user, subs[i].formData)} ]_vars

C13_Witness ==
    \E i \in SubIds :
        /\ subs[i].log = SuccessLog
        /\ lastEvent = "neighborhoodUpsertReturns"
        /\ formData.address # subs[i].formData.address
        /\ subs[i].neighborhoodPayload[1] \in neighborhoods
        /\ subs[i].neighborhoodPayload[1].address = subs[i].profilePayload[1].address
        /\ subs[i].profilePayload[1] \in user_profiles

====
